---------------------------- MODULE Spec2Model ----------------------------
(***************************************************************************)
(* A model of the chat service of chatOpenIA: the session history manager  *)
(* (getHistory / setHistory / appendToHistory), the per-tenant caches, the *)
(* vector search, and one user turn of processChatWithGPT behind the HTTP  *)
(* handler handleChatRequest.                                              *)
(*                                                                         *)
(* Five specifications are defined over the same state:                    *)
(*   SpecHistory     calls setHistory / appendToHistory directly, with any *)
(*                   message list, on a session that may or may not exist; *)
(*   SpecSearch      calls searchProducts directly, with any product list; *)
(*   SpecRank        applies the fetch by id and the re-sort to any        *)
(*                   ranking, the records fetched in any order;            *)
(*   Spec            runs whole HTTP requests one after the other, every   *)
(*                   collaborator call being free to fail;                 *)
(*   SpecConcurrent  runs two requests of one session that overlap.        *)
(***************************************************************************)
EXTENDS Integers, Sequences, FiniteSets, TLC

VARIABLES
    store,              \* the Conversation collection: session key -> record
    PRODUCT_CACHE,      \* Map domain -> product list
    CONFIG_CACHE,       \* Map domain -> business configuration
    VECTOR_STORE_CACHE, \* Map domain -> MemoryVectorStore
    now,                \* the clock read by moment() in appendToHistory
    pc,                 \* request -> the await it is suspended at
    req,                \* request -> the HTTP request being handled
    loc,                \* request -> the local variables of processChatWithGPT
    http,               \* request -> the HTTP response sent
    turns,              \* number of HTTP requests received so far
    calls,              \* number of direct calls made so far
    last                \* the arguments and result of the last direct call

vars == <<store, PRODUCT_CACHE, CONFIG_CACHE, VECTOR_STORE_CACHE, now,
          pc, req, loc, http, turns, calls, last>>

-----------------------------------------------------------------------------
(* Bounds of the model *)

\* HTTP requests handled in one behaviour of Spec
MaxTurns == 2

\* direct calls to the history manager in one behaviour of SpecHistory
MaxCalls == 3

\* direct calls to searchProducts in one behaviour of SpecSearch
MaxSearches == 2

-----------------------------------------------------------------------------
(* Program constants *)

MAX_HISTORY_LENGTH == 10

\* default k of searchProducts
DEFAULT_K == 5

-----------------------------------------------------------------------------
(* JavaScript values *)

\* the value of a property that is not there
Undefined == "undefined"

Roles == {"system", "user", "assistant"}

\* what [undefined, ...] holds in its first place when find() found nothing
UndefinedMessage == [role |-> Undefined, content |-> Undefined, timestamp |-> 0]

\* a message as setHistory receives it in processChatWithGPT: no timestamp
Message(role, content) == [role |-> role, content |-> content, timestamp |-> 0]

Min(S) == CHOOSE x \in S : \A y \in S : x <= y

\* Array.prototype.slice(-n), n > 0
SliceLast(s, n) ==
    IF Len(s) <= n THEN s ELSE SubSeq(s, Len(s) - n + 1, Len(s))

\* Array.prototype.find(m => m.role === 'system')
FindSystem(s) ==
    LET hits == {i \in 1..Len(s) : s[i].role = "system"}
    IN  IF hits = {} THEN UndefinedMessage ELSE s[Min(hits)]

IsNotSystem(m) == m.role # "system"

\* Array.prototype.filter(m => m.role !== 'system')
FilterNotSystem(s) == SelectSeq(s, IsNotSystem)

-----------------------------------------------------------------------------
(* The session store: chatHistoryManager over the Conversation collection *)

Domains == {"a.com", "b.com", "empty.com"}
Users   == {"u1", "u2"}
Sessions == Domains \X Users

NoConversation == [present |-> FALSE, messages |-> <<>>]

\* getHistory: conversation ? conversation.messages : null
HasHistory(st, key) == st[key].present
GetHistory(st, key) == st[key].messages

\* setHistory, mutated: the write adds the messages the stored list lacks
\* instead of replacing the list
SetHistoryMerges(st, key, messages) ==
    LET IsNew(m) == \A i \in 1..Len(st[key].messages) : st[key].messages[i] # m
    IN  [st EXCEPT ![key] = [present |-> TRUE,
                             messages |-> st[key].messages
                                            \o SelectSeq(messages, IsNew)]]

\* setHistory: findOneAndUpdate({domain,userId}, {messages}, {upsert: true})
SetHistory(st, key, messages) ==
    [st EXCEPT ![key] = [present |-> TRUE, messages |-> messages]]

\* newMessages.map(message => ({...message, timestamp: moment()...}))
WithTimestamp(newMessages, t) ==
    [i \in 1..Len(newMessages) |-> [newMessages[i] EXCEPT !.timestamp = t]]

\* the pruned list of appendToHistory, mutated: the slice keeps one too many
PruneKeepsOneMore(updatedHistory) ==
    <<FindSystem(updatedHistory)>>
        \o SliceLast(FilterNotSystem(updatedHistory), MAX_HISTORY_LENGTH)

\* the pruned list of appendToHistory, mutated: only the tail is kept
PruneDropsSystem(updatedHistory) ==
    SliceLast(updatedHistory, MAX_HISTORY_LENGTH)

\* the pruned list of appendToHistory, mutated: the oldest messages are kept
PruneKeepsOldest(updatedHistory) ==
    LET conversation == FilterNotSystem(updatedHistory)
    IN  <<FindSystem(updatedHistory)>>
            \o SubSeq(conversation, 1,
                      Min({Len(conversation), MAX_HISTORY_LENGTH - 1}))

\* [systemMessage, ...conversation.slice(-MAX_HISTORY_LENGTH + 1)]
Prune(updatedHistory) ==
    <<FindSystem(updatedHistory)>>
        \o SliceLast(FilterNotSystem(updatedHistory), MAX_HISTORY_LENGTH - 1)

\* the list of appendToHistory, mutated: the new messages are put in front
\* of the stored ones
AppendedHistoryPrepends(currentHistory, newMessages, t) ==
    LET updatedHistory == WithTimestamp(newMessages, t) \o currentHistory
    IN  IF Len(updatedHistory) > MAX_HISTORY_LENGTH
        THEN Prune(updatedHistory)
        ELSE updatedHistory

\* the list appendToHistory persists and returns
AppendedHistory(currentHistory, newMessages, t) ==
    LET updatedHistory == currentHistory \o WithTimestamp(newMessages, t)
    IN  IF Len(updatedHistory) > MAX_HISTORY_LENGTH
        THEN Prune(updatedHistory)
        ELSE updatedHistory

\* the read of appendToHistory, mutated: the stored history is taken for
\* empty
CurrentHistoryEmpty(st, key) == <<>>

\* (await this.getHistory(domain, userId)) || []
CurrentHistory(st, key) ==
    IF HasHistory(st, key) THEN GetHistory(st, key) ELSE <<>>

-----------------------------------------------------------------------------
(* Direct calls to the history manager (SpecHistory) *)

\* the session the direct calls are made on
DirectKey == <<"a.com", "u1">>

RolesAfterFourTurns ==
    <<"system", "user", "assistant", "user", "assistant",
      "user", "assistant", "user", "assistant">>

\* what five turns leave behind: the system message and the last nine messages
RolesAfterPruning ==
    <<"system", "assistant", "user", "assistant", "user", "assistant",
      "user", "assistant", "user", "assistant">>

\* a stored list longer than the maximum, written by setHistory directly
RolesOverLong == RolesAfterPruning \o <<"user", "assistant">>

\* the message lists setHistory is called with: each starts with the system
\* message, as the initialisation in processChatWithGPT does
StoredLists ==
    { [i \in 1..Len(rs) |-> Message(rs[i], "s" \o ToString(i))] :
        rs \in {<<"system">>, RolesAfterFourTurns, RolesAfterPruning,
                RolesOverLong} }

\* the message lists appendToHistory is called with: every list of one or two
\* messages of any roles, one list that fills a pruned history and one list
\* longer than the maximum
NewMessageLists ==
    { [i \in 1..Len(rs) |-> Message(rs[i], "n" \o ToString(i))] :
        rs \in UNION {[1..n -> Roles] : n \in {1, 2}}
               \cup {[i \in 1..(MAX_HISTORY_LENGTH - 1) |-> "user"],
                     [i \in 1..(MAX_HISTORY_LENGTH + 1) |-> "user"]} }

NoCall == [op |-> "none", key |-> DirectKey, before |-> <<>>,
           newMessages |-> <<>>, after |-> <<>>]

\* chatHistoryManager.setHistory(domain, userId, userEmail, messages)
DirectSetHistory(key, messages) ==
    /\ calls < MaxCalls
    /\ store' = SetHistory(store, key, messages)
    /\ last' = [op |-> "setHistory", key |-> key,
                before |-> CurrentHistory(store, key),
                newMessages |-> messages, after |-> messages]
    /\ calls' = calls + 1
    /\ UNCHANGED <<PRODUCT_CACHE, CONFIG_CACHE, VECTOR_STORE_CACHE, now,
                   pc, req, loc, http, turns>>

\* chatHistoryManager.appendToHistory(domain, userId, userEmail, newMessages)
DirectAppendToHistory(key, newMessages) ==
    LET currentHistory == CurrentHistory(store, key)
        result == AppendedHistory(currentHistory, newMessages, now + 1)
    IN  /\ calls < MaxCalls
        /\ now' = now + 1
        /\ store' = SetHistory(store, key, result)
        /\ last' = [op |-> "appendToHistory", key |-> key,
                    before |-> currentHistory,
                    newMessages |-> newMessages, after |-> result]
        /\ calls' = calls + 1
        /\ UNCHANGED <<PRODUCT_CACHE, CONFIG_CACHE, VECTOR_STORE_CACHE,
                       pc, req, loc, http, turns>>

-----------------------------------------------------------------------------
(* The collaborators' data: the Product collection and the configuration   *)
(* service.  Both are read-only to the service.                            *)

Product(id, domain, title, short, regular, sale, slug, image) ==
    [_id |-> id, domain |-> domain, title |-> title,
     description_short |-> short,
     price |-> [regular |-> regular, sale |-> sale],
     slug |-> slug, image_default |-> <<image>>]

\* the Product collection, in the order find() returns its documents
ProductCollection ==
    << Product("p1", "a.com", "Reloj \"Smart\" XY", "Monitor de ritmo",
               "250", "199", "reloj-smart-xy", "/img/reloj.png"),
       Product("p2", "a.com", "Pulsera", "Pulsera de cuero",
               "60", Undefined, "pulsera", "/img/pulsera.png"),
       Product("p9", "b.com", "Libro", "Novela", "30", "25", "libro",
               "/img/libro.png") >>

InDomain(domain) == {i \in 1..Len(ProductCollection) :
                        ProductCollection[i].domain = domain}

\* the elements of s at the positions in idx, in the order of s
RECURSIVE Pick(_, _)
Pick(s, idx) ==
    IF idx = {} THEN <<>>
    ELSE LET i == Min(idx) IN <<s[i]>> \o Pick(s, idx \ {i})

\* getProductsByDomain, mutated: the products of every tenant are returned
GetProductsOfEveryDomain(domain) == ProductCollection

\* getProductsByDomain: Product.find({ domain })
GetProductsByDomain(domain) == Pick(ProductCollection, InDomain(domain))

\* getProductsByIds: Product.find({ _id: { $in: ids } }), in collection order
GetProductsByIds(ids) ==
    Pick(ProductCollection,
         {i \in 1..Len(ProductCollection) :
             \E j \in 1..Len(ids) : ids[j] = ProductCollection[i]._id})

\* GET /api/configurations with header domain: data?.[0] || {}
ConfigurationOf(domain) ==
    CASE domain = "a.com" -> [name |-> "Tienda A"]
      [] domain = "b.com" -> [name |-> "Tienda B"]
      [] OTHER -> [name |-> Undefined]

-----------------------------------------------------------------------------
(* Vector search: vector.service.js over MemoryVectorStore *)

\* pageContent of the document built for a product
PageContent(product) ==
    "Nombre: " \o product.title \o ", Descripción: " \o product.description_short

\* the embedding collaborator, as a table: a text's position on one axis
Embedding(text) ==
    CASE text = "quiero una pulsera" -> 6
      [] text = PageContent(ProductCollection[1]) -> 2
      [] text = PageContent(ProductCollection[2]) -> 5
      [] text = PageContent(ProductCollection[3]) -> 4
      [] OTHER -> 3

\* the store's similarity of two vectors: larger is nearer
Similarity(a, b) == IF a <= b THEN a - b ELSE b - a

\* documents = products.map(...); MemoryVectorStore.fromDocuments
VectorStoreOf(products) ==
    [i \in 1..Len(products) |->
        [pageContent |-> PageContent(products[i]),
         metadata |-> [productId |-> products[i]._id],
         embedding |-> Embedding(PageContent(products[i]))]]

\* the ranking, mutated: a document is placed before those as similar as it
RECURSIVE InsertBeforeEquals(_, _, _)
InsertBeforeEquals(s, x, q) ==
    IF s = <<>> THEN <<x>>
    ELSE IF Similarity(q, Head(s).embedding) <= Similarity(q, x.embedding)
         THEN <<x>> \o s
         ELSE <<Head(s)>> \o InsertBeforeEquals(Tail(s), x, q)

\* s with x inserted before the first element less similar than x: the
\* stable, most-similar-first order Array.prototype.sort gives
RECURSIVE InsertBySimilarity(_, _, _)
InsertBySimilarity(s, x, q) ==
    IF s = <<>> THEN <<x>>
    ELSE IF Similarity(q, Head(s).embedding) < Similarity(q, x.embedding)
         THEN <<x>> \o s
         ELSE <<Head(s)>> \o InsertBySimilarity(Tail(s), x, q)

RECURSIVE SortBySimilarity(_, _)
SortBySimilarity(docs, q) ==
    IF docs = <<>> THEN <<>>
    ELSE InsertBySimilarity(
             SortBySimilarity(SubSeq(docs, 1, Len(docs) - 1), q),
             docs[Len(docs)], q)

\* Array.prototype.slice(0, k)
SliceFirst(s, k) == IF Len(s) <= k THEN s ELSE SubSeq(s, 1, k)

\* similaritySearch, mutated: every document is returned, whatever k is
SimilaritySearchAll(vectorStore, query, k) ==
    SortBySimilarity(vectorStore, Embedding(query))

\* vectorStore.similaritySearch(query, k)
SimilaritySearch(vectorStore, query, k) ==
    SliceFirst(SortBySimilarity(vectorStore, Embedding(query)), k)

\* searchResults.map(result => result.metadata.productId)
RelevantProductIds(vectorStore, query, k) ==
    LET searchResults == SimilaritySearch(vectorStore, query, k)
    IN  [i \in 1..Len(searchResults) |-> searchResults[i].metadata.productId]

-----------------------------------------------------------------------------
(* processChatWithGPT: its pure steps *)

\* Array.prototype.indexOf, counted from 0, -1 when absent
IndexOf(s, x) ==
    LET hits == {i \in 1..Len(s) : s[i] = x}
    IN  IF hits = {} THEN -1 ELSE Min(hits) - 1

RECURSIVE InsertByRank(_, _, _)
InsertByRank(s, x, ids) ==
    IF s = <<>> THEN <<x>>
    ELSE IF IndexOf(ids, x._id) - IndexOf(ids, Head(s)._id) < 0
         THEN <<x>> \o s
         ELSE <<Head(s)>> \o InsertByRank(Tail(s), x, ids)

\* the re-sort, mutated: the records stay in the order they were fetched in
KeepFetchedOrder(products, ids) == products

\* products.sort((a, b) => ids.indexOf(a._id) - ids.indexOf(b._id))
RECURSIVE SortByRank(_, _)
SortByRank(products, ids) ==
    IF products = <<>> THEN <<>>
    ELSE InsertByRank(
             SortByRank(SubSeq(products, 1, Len(products) - 1), ids),
             products[Len(products)], ids)

\* clean: (str || '').replace(/\r?\n|\r/g, ' ').replace(/"/g, "'"), on the
\* texts of the Product collection
Clean(str) ==
    CASE str = Undefined -> ""
      [] str = "Reloj \"Smart\" XY" -> "Reloj 'Smart' XY"
      [] OTHER -> str

\* x ?? 'N/A'
OrNA(x) == IF x = Undefined THEN "N/A" ELSE x

\* one element of productDescriptions; quote is the double quote the template
\* puts around the name, as it stands in the text
DescribeProduct(p, quote) ==
    "ID: " \o p._id \o ", Nombre: " \o quote \o Clean(p.title) \o quote
      \o ", Precio: S/" \o OrNA(p.price.regular)
      \o ", Oferta: S/" \o OrNA(p.price.sale)
      \o ", Descripción: " \o Clean(p.description_short)
      \o ", URL: /product/" \o p.slug
      \o ", IMAGEN: " \o p.image_default[1]
      \o ", SLUG: " \o p.slug

\* Array.prototype.join(' | ')
RECURSIVE JoinDescriptions(_, _)
JoinDescriptions(products, quote) ==
    IF products = <<>> THEN ""
    ELSE IF Len(products) = 1 THEN DescribeProduct(products[1], quote)
    ELSE DescribeProduct(products[1], quote) \o " | "
            \o JoinDescriptions(Tail(products), quote)

\* relevantProducts.map(...).join(' | ')
ProductDescriptions(relevantProducts) ==
    JoinDescriptions(relevantProducts, "\"")

\* every list of distinct products of the collection
ProductLists ==
    LET n == Len(ProductCollection)
    IN  { [i \in 1..Len(f) |-> ProductCollection[f[i]]] :
            f \in { g \in UNION {[1..m -> 1..n] : m \in 0..n} :
                      \A i, j \in 1..Len(g) : i # j => g[i] # g[j] } }

\* JSON.stringify(text, null, 2) of a product description text: the text in
\* double quotes, its own double quotes escaped
StringifyDescriptions(text) ==
    LET from == {ps \in ProductLists : JoinDescriptions(ps, "\"") = text}
    IN  IF from = {} THEN "\"" \o text \o "\""
        ELSE "\"" \o JoinDescriptions(CHOOSE ps \in from : TRUE, "\\\"") \o "\""

\* JSON.stringify(infoBusiness, null, 2)
StringifyConfig(infoBusiness) ==
    IF infoBusiness.name = Undefined THEN "{}"
    ELSE "{\n  \"name\": \"" \o infoBusiness.name \o "\"\n}"

\* buildSystemMessage; [...] stands for the fixed text of the template that
\* is left out here
BuildSystemMessage(domain, productDescriptions, infoBusiness) ==
    "Eres un asistente de ventas experto, amable y consultivo para la tienda \""
      \o domain
      \o "\" [...] Usa únicamente la siguiente información de la empresa: "
      \o StringifyConfig(infoBusiness)
      \o ". [...]\n\n---\n\n### CATÁLOGO DISPONIBLE\n[...]\n"
      \o StringifyDescriptions(productDescriptions)

\* the request's messages, mutated: of the conversation only the first
\* message is sent
MessagesForAPIFirstOnly(conversation, userMessage) ==
    <<[role |-> conversation[1].role, content |-> conversation[1].content],
      [role |-> "user", content |-> userMessage]>>

\* conversation.map(({ role, content }) => ({ role, content })) followed by
\* the user's message
MessagesForAPI(conversation, userMessage) ==
    [i \in 1..Len(conversation) |->
        [role |-> conversation[i].role, content |-> conversation[i].content]]
      \o <<[role |-> "user", content |-> userMessage]>>

-----------------------------------------------------------------------------
(* The completion collaborator's payloads and their decoding.  A decoded    *)
(* object is a record that has exactly the properties the JSON text has.   *)

\* obj.field, undefined when the object has no such property
Get(obj, field) == IF field \in DOMAIN obj THEN obj[field] ELSE Undefined

RawNotJson == "Claro, te ayudo con eso."
RawNull == "null"
RawEmptyObject == "{}"
RawNone ==
    "{\"message\":\"Hay relojes.\",\"audio_description\":\"Relojes.\","
      \o "\"action\":{\"type\":\"none\"}}"
RawAddKnown ==
    "{\"message\":\"Agregado.\",\"audio_description\":\"Listo.\","
      \o "\"action\":{\"type\":\"add_to_cart\",\"productId\":\"p1\","
      \o "\"quantity\":\"1\",\"url\":\"//evil/x\",\"price_sale\":\"1\","
      \o "\"title\":\"Gratis\",\"price_regular\":\"2\","
      \o "\"image\":\"//evil/i.png\",\"slug\":\"otro\"}}"
RawAddUnknown ==
    "{\"message\":\"Agregado.\",\"action\":{\"type\":\"add_to_cart\","
      \o "\"productId\":\"p9\",\"url\":\"/product/p9\"}}"

\* data.choices[0].message.content of a completion that succeeded
RawTexts == {RawNotJson, RawNull, RawEmptyObject, RawNone, RawAddKnown,
             RawAddUnknown}

\* let assistantReply, before JSON.parse
UndefinedReply == [kind |-> "undefined"]

\* JSON.parse on the payloads above: kind "error" is the SyntaxError it
\* throws, kind "null" the value null, kind "object" a decoded object
JSONParse(raw) ==
    CASE raw = RawNull -> [kind |-> "null"]
      [] raw = RawEmptyObject -> [kind |-> "object", value |-> <<>>]
      [] raw = RawNone ->
            [kind |-> "object",
             value |-> [message |-> "Hay relojes.",
                        audio_description |-> "Relojes.",
                        action |-> [type |-> "none"]]]
      [] raw = RawAddKnown ->
            [kind |-> "object",
             value |-> [message |-> "Agregado.",
                        audio_description |-> "Listo.",
                        action |-> [type |-> "add_to_cart", productId |-> "p1",
                                    quantity |-> "1", url |-> "//evil/x",
                                    price_sale |-> "1", title |-> "Gratis",
                                    price_regular |-> "2",
                                    image |-> "//evil/i.png",
                                    slug |-> "otro"]]]
      [] raw = RawAddUnknown ->
            [kind |-> "object",
             value |-> [message |-> "Agregado.",
                        action |-> [type |-> "add_to_cart", productId |-> "p9",
                                    url |-> "/product/p9"]]]
      [] OTHER -> [kind |-> "error"]

\* the lookup, mutated: the first product matches whatever id is asked for
FindFirstProduct(allProducts, productId) ==
    {i \in 1..Len(allProducts) : i = 1}

\* allProducts.find(p => p._id.toString() === productId), as the set of the
\* positions that match
FindProduct(allProducts, productId) ==
    {i \in 1..Len(allProducts) : allProducts[i]._id = productId}

\* the properties the enrichment writes
EnrichedFields ==
    {"url", "price_sale", "title", "price_regular", "image", "slug"}

\* { ...action, url, price_sale, title, price_regular, image, slug }
WithProduct(action, product) ==
    [f \in DOMAIN action \cup EnrichedFields |->
        CASE f = "url" -> "/product/" \o product.slug
          [] f = "price_sale" -> product.price.sale
          [] f = "title" -> product.title
          [] f = "price_regular" -> product.price.regular
          [] f = "image" -> product.image_default[1]
          [] f = "slug" -> product.slug
          [] OTHER -> action[f]]

\* the enrichment, mutated: the model's own values win over the catalogue's
EnrichKeepsModelValues(action, allProducts) == action

\* the enrichment of the action of a decoded object (lines 307-320)
Enrich(action, allProducts) ==
    IF Get(action, "type") = "add_to_cart"
       /\ Get(action, "productId") \notin {Undefined, ""}
    THEN LET found == FindProduct(allProducts, action.productId)
         IN  IF found = {} THEN action
             ELSE WithProduct(action, allProducts[Min(found)])
    ELSE action

Response(message, audio_description, action) ==
    [message |-> message, audio_description |-> audio_description,
     action |-> action]

\* the object returned at lines 322-326, reply being the decoded object
SuccessResponse(reply, allProducts) ==
    Response(
        IF "message" \in DOMAIN reply THEN reply.message
        ELSE "Respuesta vacía.",
        IF "audio_description" \in DOMAIN reply THEN reply.audio_description
        ELSE "",
        IF "action" \in DOMAIN reply THEN Enrich(reply.action, allProducts)
        ELSE [type |-> "none"])

\* the object returned by the catch at lines 328-335
FallbackResponse ==
    Response("Hubo un problema al procesar tu solicitud. Por favor, intenta de nuevo.",
             "Lo siento, ocurrió un error.", [type |-> "none"])

\* the object returned at lines 233-237
EmptyCatalogResponse ==
    Response("No hay productos disponibles para esta tienda en este momento.",
             "El catálogo de esta tienda está vacío.", [type |-> "none"])

-----------------------------------------------------------------------------
(* Requests: handleChatRequest and the turn of processChatWithGPT.  A      *)
(* request advances from one await to the next; the code between two       *)
(* awaits runs in one step.                                                *)

Procs == {1, 2}

Request(domain, userMessage, id, email, merchandId) ==
    [domain |-> domain, userMessage |-> userMessage, id |-> id,
     email |-> email, merchandId |-> merchandId]

NoRequest == Request(Undefined, Undefined, Undefined, Undefined, Undefined)

\* the texts users send: they rank the products of a.com differently
UserMessages == {"hola", "quiero una pulsera"}

\* the requests that carry every required field: both users and both texts
\* for a.com, and user u1 for the other tenants
ValidRequests ==
    {Request("a.com", m, u, u \o "@mail.com", "m1") :
        m \in UserMessages, u \in Users}
    \cup {Request(d, "hola", "u1", "u1@mail.com", "m1") :
            d \in Domains \ {"a.com"}}

\* requests that lack a field of the body, or of the decoded token
InvalidRequests ==
    {Request("a.com", Undefined, "u1", "u1@mail.com", "m1"),
     Request("a.com", "hola", "u1", "u1@mail.com", Undefined)}

Requests == ValidRequests \cup InvalidRequests

\* !x for the fields of a request
Falsy(x) == x \in {Undefined, ""}

\* res.json({ assistantMessage })
HttpOk(assistantMessage) ==
    [status |-> 200, assistantMessage |-> assistantMessage]

\* res.status(status).json({ error })
HttpError(status, error) == [status |-> status, error |-> error]

\* nothing sent yet
NoHttpResponse == [status |-> 0]

NoCache == [d \in Domains |-> [cached |-> FALSE, value |-> <<>>]]
NoConfigCache == [d \in Domains |-> [cached |-> FALSE,
                                     value |-> [name |-> Undefined]]]

\* Map.prototype.set
CacheSet(cache, domain, value) ==
    [cache EXCEPT ![domain] = [cached |-> TRUE, value |-> value]]

NoLocals ==
    [allProducts |-> <<>>, vectorStore |-> <<>>, relevantProductIds |-> <<>>,
     productDescriptions |-> "", config |-> [name |-> Undefined],
     conversation |-> <<>>, messagesForAPI |-> <<>>,
     rawAssistantResponse |-> Undefined, assistantReply |-> UndefinedReply,
     finalHistory |-> <<>>,
     \* not in the code: how the turn ended, where it failed, the stored
     \* conversation when the request arrived, the awaited calls the turn
     \* has made, and of the turn before it the tenant, the user, the
     \* failure and whether it found no session
     outcome |-> "none", failure |-> "none",
     atStart |-> NoConversation, called |-> {},
     before |-> [domain |-> Undefined, id |-> Undefined,
                 failure |-> "none", first |-> FALSE]]

\* the session key, mutated: one session per tenant, whoever the user is
KeyIgnoresUser(p) == <<req[p].domain, "u1">>

Key(p) == <<req[p].domain, req[p].id>>

\* the turn ends: processChatWithGPT returns response, res.json sends it
Return(p, locals, response, outcome, failure) ==
    /\ pc' = [pc EXCEPT ![p] = "done"]
    /\ loc' = [loc EXCEPT ![p] = [locals EXCEPT !.outcome = outcome,
                                                !.failure = failure]]
    /\ http' = [http EXCEPT ![p] = HttpOk(response)]

\* processChatWithGPT rejects: the catch of handleChatRequest answers 500
Throw(p, failure) ==
    /\ pc' = [pc EXCEPT ![p] = "done"]
    /\ loc' = [loc EXCEPT ![p].outcome = "thrown", ![p].failure = failure]
    /\ http' = [http EXCEPT ![p] =
                   HttpError(500, "Error procesando el mensaje.")]

\* the cache lookups, which are not awaited calls
Lookups == {"loadProducts", "buildVectorStore"}

\* the turn goes on to label: a cache lookup, or an awaited call, which is
\* made now and answered by the turn's next step
Goto(p, locals, label) ==
    /\ pc' = [pc EXCEPT ![p] = label]
    /\ loc' = [loc EXCEPT ![p] =
                  [locals EXCEPT !.called = @ \cup ({label} \ Lookups)]]
    /\ UNCHANGED http

\* handleChatRequest, up to the call of processChatWithGPT
HandleChatRequest(p, r) ==
    /\ pc[p] \in {"idle", "done"}
    /\ turns < MaxTurns
    /\ turns' = turns + 1
    /\ req' = [req EXCEPT ![p] = r]
    /\ IF Falsy(r.domain) \/ Falsy(r.userMessage)
       THEN /\ pc' = [pc EXCEPT ![p] = "done"]
            /\ loc' = [loc EXCEPT ![p] = [NoLocals EXCEPT !.outcome = "rejected"]]
            /\ http' = [http EXCEPT ![p] =
                   HttpError(400, "Faltan domain o userMessage")]
       ELSE IF Falsy(r.id) \/ Falsy(r.email) \/ Falsy(r.merchandId)
       THEN /\ pc' = [pc EXCEPT ![p] = "done"]
            /\ loc' = [loc EXCEPT ![p] = [NoLocals EXCEPT !.outcome = "rejected"]]
            /\ http' = [http EXCEPT ![p] =
                   HttpError(400, "Falta información del usuario en el token")]
       ELSE /\ pc' = [pc EXCEPT ![p] = "loadProducts"]
            /\ loc' = [loc EXCEPT ![p] =
                   [NoLocals EXCEPT
                       !.atStart = store[<<r.domain, r.id>>],
                       !.before = [domain |-> req[p].domain,
                                   id |-> req[p].id,
                                   failure |-> loc[p].failure,
                                   first |-> /\ loc[p].outcome
                                                  \notin {"none", "rejected"}
                                             /\ ~loc[p].atStart.present]]]
            /\ http' = [http EXCEPT ![p] = NoHttpResponse]
    /\ UNCHANGED <<store, PRODUCT_CACHE, CONFIG_CACHE, VECTOR_STORE_CACHE,
                   now, calls, last>>

\* lines 232-238, mutated: the turn goes on with an empty catalogue
AfterProductsNeverEmpty(p, allProducts) ==
    Goto(p, [loc[p] EXCEPT !.allProducts = allProducts], "buildVectorStore")

\* lines 232-241 once allProducts is known
AfterProducts(p, allProducts) ==
    IF Len(allProducts) = 0
    THEN Return(p, [loc[p] EXCEPT !.allProducts = allProducts],
                EmptyCatalogResponse, "empty", "none")
    ELSE Goto(p, [loc[p] EXCEPT !.allProducts = allProducts],
              "buildVectorStore")

\* lines 226-228, mutated: the cached catalogue is not looked at
LoadProductsAlwaysMisses(p) ==
    /\ pc[p] = "loadProducts"
    /\ Goto(p, loc[p], "getProductsByDomain")
    /\ UNCHANGED <<store, PRODUCT_CACHE, CONFIG_CACHE, VECTOR_STORE_CACHE,
                   now, req, turns, calls, last>>

\* lines 226-228, mutated: a cached catalogue without products counts as a
\* miss
LoadProductsReloadsEmpty(p) ==
    /\ pc[p] = "loadProducts"
    /\ IF PRODUCT_CACHE[req[p].domain].cached
          /\ PRODUCT_CACHE[req[p].domain].value # <<>>
       THEN AfterProducts(p, PRODUCT_CACHE[req[p].domain].value)
       ELSE Goto(p, loc[p], "getProductsByDomain")
    /\ UNCHANGED <<store, PRODUCT_CACHE, CONFIG_CACHE, VECTOR_STORE_CACHE,
                   now, req, turns, calls, last>>

\* lines 226-228: PRODUCT_CACHE.get(domain); !allProducts is also true of
\* nothing else the cache can hold, an empty array being truthy
LoadProducts(p) ==
    /\ pc[p] = "loadProducts"
    /\ IF PRODUCT_CACHE[req[p].domain].cached
       THEN AfterProducts(p, PRODUCT_CACHE[req[p].domain].value)
       ELSE Goto(p, loc[p], "getProductsByDomain")
    /\ UNCHANGED <<store, PRODUCT_CACHE, CONFIG_CACHE, VECTOR_STORE_CACHE,
                   now, req, turns, calls, last>>

\* lines 228-229: getProductsByDomain answers, or fails
ProductsLoaded(p) ==
    /\ pc[p] = "getProductsByDomain"
    /\ \/ /\ PRODUCT_CACHE' = CacheSet(PRODUCT_CACHE, req[p].domain,
                                       GetProductsByDomain(req[p].domain))
          /\ AfterProducts(p, GetProductsByDomain(req[p].domain))
       \/ /\ Throw(p, "catalog")
          /\ UNCHANGED PRODUCT_CACHE
    /\ UNCHANGED <<store, CONFIG_CACHE, VECTOR_STORE_CACHE,
                   now, req, turns, calls, last>>

\* searchProducts up to buildVectorStore's cache lookup
BuildVectorStore(p) ==
    /\ pc[p] = "buildVectorStore"
    /\ IF Len(loc[p].allProducts) = 0
       THEN Goto(p, [loc[p] EXCEPT !.relevantProductIds = <<>>],
                 "getProductsByIds")
       ELSE IF VECTOR_STORE_CACHE[req[p].domain].cached
       THEN Goto(p, [loc[p] EXCEPT !.vectorStore =
                        VECTOR_STORE_CACHE[req[p].domain].value],
                 "similaritySearch")
       ELSE Goto(p, loc[p], "fromDocuments")
    /\ UNCHANGED <<store, PRODUCT_CACHE, CONFIG_CACHE, VECTOR_STORE_CACHE,
                   now, req, turns, calls, last>>

\* MemoryVectorStore.fromDocuments embeds the documents, or fails
VectorStoreBuilt(p) ==
    /\ pc[p] = "fromDocuments"
    /\ \/ /\ VECTOR_STORE_CACHE' =
                CacheSet(VECTOR_STORE_CACHE, req[p].domain,
                         VectorStoreOf(loc[p].allProducts))
          /\ Goto(p, [loc[p] EXCEPT !.vectorStore =
                         VectorStoreOf(loc[p].allProducts)],
                  "similaritySearch")
       \/ /\ Throw(p, "index")
          /\ UNCHANGED VECTOR_STORE_CACHE
    /\ UNCHANGED <<store, PRODUCT_CACHE, CONFIG_CACHE,
                   now, req, turns, calls, last>>

\* vectorStore.similaritySearch embeds the query and ranks, or fails
SearchProducts(p) ==
    /\ pc[p] = "similaritySearch"
    /\ \/ Goto(p, [loc[p] EXCEPT !.relevantProductIds =
                      RelevantProductIds(loc[p].vectorStore,
                                         req[p].userMessage, DEFAULT_K)],
               "getProductsByIds")
       \/ Throw(p, "embedding")
    /\ UNCHANGED <<store, PRODUCT_CACHE, CONFIG_CACHE, VECTOR_STORE_CACHE,
                   now, req, turns, calls, last>>

\* lines 245-255: getProductsByIds answers, or fails; then fetchConfig's
\* cache lookup
RelevantProductsLoaded(p) ==
    /\ pc[p] = "getProductsByIds"
    /\ \/ LET relevantProducts ==
                  SortByRank(GetProductsByIds(loc[p].relevantProductIds),
                             loc[p].relevantProductIds)
              locals == [loc[p] EXCEPT !.productDescriptions =
                            ProductDescriptions(relevantProducts)]
          IN  IF CONFIG_CACHE[req[p].domain].cached
              THEN Goto(p, [locals EXCEPT !.config =
                               CONFIG_CACHE[req[p].domain].value],
                        "getHistory")
              ELSE Goto(p, locals, "fetchConfig")
       \/ Throw(p, "productsByIds")
    /\ UNCHANGED <<store, PRODUCT_CACHE, CONFIG_CACHE, VECTOR_STORE_CACHE,
                   now, req, turns, calls, last>>

\* fetchConfig, mutated: a failure stores an empty configuration before it
\* throws
ConfigFetchedCachesFailure(p) ==
    /\ pc[p] = "fetchConfig"
    /\ \/ /\ CONFIG_CACHE' = CacheSet(CONFIG_CACHE, req[p].domain,
                                      ConfigurationOf(req[p].domain))
          /\ Goto(p, [loc[p] EXCEPT !.config = ConfigurationOf(req[p].domain)],
                  "getHistory")
       \/ /\ Throw(p, "config")
          /\ CONFIG_CACHE' = CacheSet(CONFIG_CACHE, req[p].domain,
                                      [name |-> Undefined])
    /\ UNCHANGED <<store, PRODUCT_CACHE, VECTOR_STORE_CACHE,
                   now, req, turns, calls, last>>

\* fetchConfig, lines 109-120: the configuration service answers, or fails
\* and fetchConfig throws
ConfigFetched(p) ==
    /\ pc[p] = "fetchConfig"
    /\ \/ /\ CONFIG_CACHE' = CacheSet(CONFIG_CACHE, req[p].domain,
                                      ConfigurationOf(req[p].domain))
          /\ Goto(p, [loc[p] EXCEPT !.config = ConfigurationOf(req[p].domain)],
                  "getHistory")
       \/ /\ Throw(p, "config")
          /\ UNCHANGED CONFIG_CACHE
    /\ UNCHANGED <<store, PRODUCT_CACHE, VECTOR_STORE_CACHE,
                   now, req, turns, calls, last>>

\* line 260, mutated: the session is taken for missing on every turn
SessionFoundNever(st, key) == FALSE

\* line 260: conversation is not null
SessionFound(st, key) == HasHistory(st, key)

\* lines 257-267: getHistory answers, or fails
HistoryRead(p) ==
    /\ pc[p] = "getHistory"
    /\ \/ IF SessionFound(store, Key(p))
          THEN LET conversation == GetHistory(store, Key(p))
               IN  Goto(p, [loc[p] EXCEPT
                               !.conversation = conversation,
                               !.messagesForAPI =
                                   MessagesForAPI(conversation,
                                                  req[p].userMessage)],
                        "callOpenAI")
          ELSE LET systemMessage ==
                       BuildSystemMessage(req[p].domain,
                                          loc[p].productDescriptions,
                                          loc[p].config)
               IN  Goto(p, [loc[p] EXCEPT !.conversation =
                               <<Message("system", systemMessage)>>],
                        "setHistory")
       \/ Throw(p, "sessionRead")
    /\ UNCHANGED <<store, PRODUCT_CACHE, CONFIG_CACHE, VECTOR_STORE_CACHE,
                   now, req, turns, calls, last>>

\* lines 263-267, mutated: the new session is not written before the
\* completion is called
HistoryInitialisedSkipsWrite(p) ==
    /\ pc[p] = "setHistory"
    /\ Goto(p, [loc[p] EXCEPT
                   !.messagesForAPI =
                       MessagesForAPI(loc[p].conversation, req[p].userMessage)],
            "callOpenAI")
    /\ UNCHANGED <<store, PRODUCT_CACHE, CONFIG_CACHE, VECTOR_STORE_CACHE,
                   now, req, turns, calls, last>>

\* lines 263-267: setHistory writes the new session, or fails
HistoryInitialised(p) ==
    /\ pc[p] = "setHistory"
    /\ \/ /\ store' = SetHistory(store, Key(p), loc[p].conversation)
          /\ Goto(p, [loc[p] EXCEPT
                         !.messagesForAPI =
                             MessagesForAPI(loc[p].conversation,
                                            req[p].userMessage)],
                  "callOpenAI")
       \/ /\ Throw(p, "sessionWrite")
          /\ UNCHANGED store
    /\ UNCHANGED <<PRODUCT_CACHE, CONFIG_CACHE, VECTOR_STORE_CACHE,
                   now, req, turns, calls, last>>

\* the messages processChatWithGPT hands to appendToHistory, mutated: the
\* assistant's message is left out
TurnMessagesUserOnly(userMessage, rawAssistantResponse) ==
    <<Message("user", userMessage)>>

\* the turn's messages, mutated: the assistant message holds the reply as
\* returned, not the text received
TurnMessagesStoreReturned(userMessage, rawAssistantResponse) ==
    <<Message("user", userMessage),
      Message("assistant",
              IF rawAssistantResponse = RawAddKnown THEN RawNone
              ELSE rawAssistantResponse)>>

\* the messages processChatWithGPT hands to appendToHistory (lines 300-303)
TurnMessages(userMessage, rawAssistantResponse) ==
    <<Message("user", userMessage), Message("assistant", rawAssistantResponse)>>

\* the try around JSON.parse, mutated: a payload that does not decode is let
\* through
DecodeNeverFails(assistantReply) == FALSE

\* lines 292-297: JSON.parse threw
DecodeFailed(assistantReply) == assistantReply.kind = "error"

\* the catch of the turn, mutated: the failure of the completion call is
\* raised to the caller
CompletionFailedRethrows(p) == Throw(p, "completion")

\* lines 328-335: the catch answers the failure of the completion call
CompletionFailed(p) ==
    Return(p, loc[p], FallbackResponse, "fallback", "completion")

\* lines 269-300: the completion answers raw, or the call fails; JSON.parse;
\* appendToHistory is entered
Completed(p) ==
    /\ pc[p] = "callOpenAI"
    /\ \/ \E raw \in RawTexts :
            LET assistantReply == JSONParse(raw)
                locals == [loc[p] EXCEPT !.rawAssistantResponse = raw,
                                         !.assistantReply = assistantReply]
            IN  IF DecodeFailed(assistantReply)
                THEN Return(p, locals, FallbackResponse, "fallback", "json")
                ELSE Goto(p, locals, "appendGetHistory")
       \/ CompletionFailed(p)
    /\ UNCHANGED <<store, PRODUCT_CACHE, CONFIG_CACHE, VECTOR_STORE_CACHE,
                   now, req, turns, calls, last>>

\* appendToHistory, lines 71-92: getHistory answers, or fails; the new list
\* is computed
AppendHistoryRead(p) ==
    /\ pc[p] = "appendGetHistory"
    /\ \/ /\ now' = now + 1
          /\ Goto(p, [loc[p] EXCEPT
                         !.finalHistory =
                             AppendedHistory(
                                 CurrentHistory(store, Key(p)),
                                 TurnMessages(req[p].userMessage,
                                              loc[p].rawAssistantResponse),
                                 now + 1)],
                  "appendSetHistory")
       \/ /\ Return(p, loc[p], FallbackResponse, "fallback", "appendRead")
          /\ UNCHANGED now
    /\ UNCHANGED <<store, PRODUCT_CACHE, CONFIG_CACHE, VECTOR_STORE_CACHE,
                   req, turns, calls, last>>

\* lines 90-95 and 305-326: setHistory writes the list, or fails; the action
\* is enriched and the reply returned; reading a property of null throws
AppendHistoryWritten(p) ==
    /\ pc[p] = "appendSetHistory"
    /\ \/ /\ store' = SetHistory(store, Key(p), loc[p].finalHistory)
          /\ IF loc[p].assistantReply.kind # "object"
             THEN Return(p, loc[p], FallbackResponse, "fallback", "reply")
             ELSE Return(p, loc[p],
                         SuccessResponse(loc[p].assistantReply.value,
                                         loc[p].allProducts),
                         "returned", "none")
       \/ /\ Return(p, loc[p], FallbackResponse, "fallback", "appendWrite")
          /\ UNCHANGED store
    /\ UNCHANGED <<PRODUCT_CACHE, CONFIG_CACHE, VECTOR_STORE_CACHE,
                   now, req, turns, calls, last>>

-----------------------------------------------------------------------------
(* The specifications *)

\* the system message the first turn of (a.com, u1) builds
EarlierSystemMessage ==
    LET ids == RelevantProductIds(VectorStoreOf(GetProductsByDomain("a.com")),
                                  "hola", DEFAULT_K)
    IN  BuildSystemMessage(
            "a.com",
            ProductDescriptions(SortByRank(GetProductsByIds(ids), ids)),
            ConfigurationOf("a.com"))

\* the conversation four turns of an earlier run of the process left in the
\* database for (a.com, u1): the collection outlives the process
EarlierHistory ==
    [i \in 1..Len(RolesAfterFourTurns) |->
        IF i = 1 THEN Message("system", EarlierSystemMessage)
        ELSE [role |-> RolesAfterFourTurns[i],
              content |-> IF RolesAfterFourTurns[i] = "user" THEN "hola"
                          ELSE RawNone,
              timestamp |-> i \div 2]]

NewestTimestamp(messages) ==
    IF messages = <<>> THEN 0 ELSE messages[Len(messages)].timestamp

InitProcess ==
    /\ PRODUCT_CACHE = NoCache
    /\ CONFIG_CACHE = NoConfigCache
    /\ VECTOR_STORE_CACHE = NoCache
    /\ pc = [p \in Procs |-> "idle"]
    /\ req = [p \in Procs |-> NoRequest]
    /\ loc = [p \in Procs |-> NoLocals]
    /\ http = [p \in Procs |-> NoHttpResponse]
    /\ turns = 0
    /\ calls = 0
    /\ last = NoCall

\* the process starts with empty caches, over a database that is empty or
\* holds the earlier conversation
Init ==
    /\ InitProcess
    /\ store \in {[k \in Sessions |-> NoConversation],
                  [k \in Sessions |->
                      IF k = DirectKey
                      THEN [present |-> TRUE, messages |-> EarlierHistory]
                      ELSE NoConversation]}
    /\ now = NewestTimestamp(store[DirectKey].messages)

Step(p) ==
    \/ \E r \in Requests : HandleChatRequest(p, r)
    \/ LoadProducts(p)
    \/ ProductsLoaded(p)
    \/ BuildVectorStore(p)
    \/ VectorStoreBuilt(p)
    \/ SearchProducts(p)
    \/ RelevantProductsLoaded(p)
    \/ ConfigFetched(p)
    \/ HistoryRead(p)
    \/ HistoryInitialised(p)
    \/ Completed(p)
    \/ AppendHistoryRead(p)
    \/ AppendHistoryWritten(p)

\* requests handled one after the other
Next == Step(1)

Spec == Init /\ [][Next]_vars

InitHistory ==
    /\ InitProcess
    /\ store = [k \in Sessions |-> NoConversation]
    /\ now = 0

NextHistory ==
    \/ \E messages \in StoredLists : DirectSetHistory(DirectKey, messages)
    \/ \E newMessages \in NewMessageLists :
          DirectAppendToHistory(DirectKey, newMessages)

\* direct calls to the history manager
SpecHistory == InitHistory /\ [][NextHistory]_vars

\* the requests of one session, (a.com, u1)
SessionRequests == {r \in ValidRequests : <<r.domain, r.id>> = DirectKey}

\* the steps of a request after handleChatRequest has taken it
Turn(p) ==
    \/ LoadProducts(p)
    \/ ProductsLoaded(p)
    \/ BuildVectorStore(p)
    \/ VectorStoreBuilt(p)
    \/ SearchProducts(p)
    \/ RelevantProductsLoaded(p)
    \/ ConfigFetched(p)
    \/ HistoryRead(p)
    \/ HistoryInitialised(p)
    \/ Completed(p)
    \/ AppendHistoryRead(p)
    \/ AppendHistoryWritten(p)

\* two requests of the same session that overlap: each is received once and
\* advances from await to await, in any order
NextConcurrent ==
    \E p \in Procs :
        \/ \E r \in SessionRequests : pc[p] = "idle" /\ HandleChatRequest(p, r)
        \/ Turn(p)

SpecConcurrent == Init /\ [][NextConcurrent]_vars

-----------------------------------------------------------------------------
(* Direct calls to searchProducts (SpecSearch): queries that do not        *)
(* overlap, with any product list                                          *)

\* the product lists searchProducts is called with: none, the catalogue of
\* a.com in both orders, and the whole collection in both orders
SearchProductLists ==
    {<<>>,
     <<ProductCollection[1], ProductCollection[2]>>,
     <<ProductCollection[2], ProductCollection[1]>>,
     ProductCollection,
     <<ProductCollection[3], ProductCollection[2], ProductCollection[1]>>}

\* the values of k it is called with: one that cuts the result short, and
\* the default
SearchKs == {1, DEFAULT_K}

SearchDomains == {"a.com", "b.com"}

\* buildVectorStore, mutated: the index is built from the list on every call
VectorStoreRebuilt(cache, domain, products) == VectorStoreOf(products)

\* the store buildVectorStore returns: the cached one, or one built from the
\* products
VectorStoreFor(cache, domain, products) ==
    IF cache[domain].cached THEN cache[domain].value
    ELSE VectorStoreOf(products)

\* the texts buildVectorStore sends to the embedding collaborator
EmbeddedTexts(cache, domain, products) ==
    IF cache[domain].cached THEN <<>>
    ELSE [i \in 1..Len(products) |-> PageContent(products[i])]

\* a call without the call before it
Forget(call) ==
    IF "prev" \in DOMAIN call
    THEN [f \in DOMAIN call \ {"prev"} |-> call[f]]
    ELSE call

\* searchProducts(domain, products, query, apiKey, k), from call to return:
\* it returns, or the building of the index fails, or the search fails
DirectSearchProducts(domain, products, query, k) ==
    LET vectorStore == VectorStoreFor(VECTOR_STORE_CACHE, domain, products)
        call(outcome, embedded, result) ==
            [op |-> "searchProducts", domain |-> domain,
             products |-> products, query |-> query, k |-> k,
             indexBefore |-> VECTOR_STORE_CACHE[domain],
             outcome |-> outcome, embedded |-> embedded, result |-> result,
             prev |-> Forget(last)]
        embedded == EmbeddedTexts(VECTOR_STORE_CACHE, domain, products)
    IN  /\ calls < MaxSearches
        /\ calls' = calls + 1
        /\ IF Len(products) = 0
           THEN /\ last' = call("returned", <<>>, <<>>)
                /\ UNCHANGED VECTOR_STORE_CACHE
           ELSE \/ /\ ~VECTOR_STORE_CACHE[domain].cached
                   /\ last' = call("buildFailed", embedded, <<>>)
                   /\ UNCHANGED VECTOR_STORE_CACHE
                \/ /\ VECTOR_STORE_CACHE' =
                         CacheSet(VECTOR_STORE_CACHE, domain, vectorStore)
                   /\ \/ last' = call("searchFailed", embedded, <<>>)
                      \/ last' = call("returned", embedded,
                                      RelevantProductIds(vectorStore, query, k))
        /\ UNCHANGED <<store, PRODUCT_CACHE, CONFIG_CACHE, now,
                       pc, req, loc, http, turns>>

NextSearch ==
    \E domain \in SearchDomains, products \in SearchProductLists,
       query \in UserMessages, k \in SearchKs :
        DirectSearchProducts(domain, products, query, k)

\* direct calls to searchProducts, in a process that starts with empty caches
SpecSearch == InitHistory /\ [][NextSearch]_vars

-----------------------------------------------------------------------------
(* Direct application of lines 245-247 of processChatWithGPT (SpecRank):   *)
(* any ranking of ids, the records fetched in any order                    *)

\* ids a ranking can hold: those of the collection and one that has no
\* record in it
RankedIds == {ProductCollection[i]._id : i \in 1..Len(ProductCollection)}
                 \cup {"p0"}

\* the rankings: ids without repetition, fewer than DEFAULT_K of them
Rankings ==
    { g \in UNION {[1..m -> RankedIds] : m \in 0..Cardinality(RankedIds)} :
        \A i, j \in 1..Len(g) : i # j => g[i] # g[j] }

\* the answers Product.find({ _id: { $in: ids } }) can give: the records
\* whose id is among ids, in any order
FetchedByIds(ids) ==
    { ps \in ProductLists :
        {ps[i]._id : i \in 1..Len(ps)}
           = {ids[j] : j \in 1..Len(ids)}
               \cap {ProductCollection[i]._id :
                        i \in 1..Len(ProductCollection)} }

\* lines 245-253: the fetched records re-sorted, and their descriptions
DirectRelevantProducts(ids, fetched) ==
    LET relevantProducts == SortByRank(fetched, ids)
    IN  /\ last' = [op |-> "relevantProducts", relevantProductIds |-> ids,
                    fetched |-> fetched,
                    relevantProducts |-> relevantProducts,
                    productDescriptions |->
                        ProductDescriptions(relevantProducts)]
        /\ UNCHANGED <<store, PRODUCT_CACHE, CONFIG_CACHE, VECTOR_STORE_CACHE,
                       now, pc, req, loc, http, turns, calls>>

NextRank ==
    \E ids \in Rankings : \E fetched \in FetchedByIds(ids) :
        DirectRelevantProducts(ids, fetched)

\* direct applications of the fetch by id and the re-sort
SpecRank == InitHistory /\ [][NextRank]_vars

-----------------------------------------------------------------------------
(* Properties of the history manager, under SpecHistory *)

FirstRole(messages) == messages[1].role

C2_LengthBounded ==
    last.op = "appendToHistory"
    => /\ Len(GetHistory(store, last.key)) <= MAX_HISTORY_LENGTH
       /\ Len(last.after) <= MAX_HISTORY_LENGTH

\* C2's case: the stored history was already longer than the maximum, or
\* more messages than the maximum were appended at once, and the result is
\* exactly as long as the maximum
C2_Witness ==
    /\ last.op = "appendToHistory"
    /\ \/ Len(last.before) > MAX_HISTORY_LENGTH
       \/ Len(last.newMessages) > MAX_HISTORY_LENGTH
    /\ Len(GetHistory(store, last.key)) = MAX_HISTORY_LENGTH

-----------------------------------------------------------------------------
(* Properties of a turn, under Spec *)

Done(p) == pc[p] = "done" /\ loc[p].outcome # "rejected"

\* the positions of the tenant's cached catalogue that hold the product id
InCatalog(domain, productId) ==
    FindProduct(PRODUCT_CACHE[domain].value, productId)

ReturnedAction(p) == http[p].assistantMessage.action

\* the action the model supplied in the reply the turn returned
ModelAction(p) ==
    LET reply == loc[p].assistantReply.value
    IN  IF "action" \in DOMAIN reply THEN reply.action ELSE <<>>

\* C3: when the turn returns the model's reply and its action is add_to_cart
\* with the id of a product of the tenant's cached catalogue, the returned
\* action's url (the product's page, /product/<slug>), price_sale,
\* price_regular, title, image and slug are the catalogue product's, whatever
\* the model supplied for them.
C3_AddToCartUsesCatalog ==
    \A p \in Procs :
        (Done(p) /\ loc[p].outcome = "returned"
            /\ Get(ModelAction(p), "type") = "add_to_cart"
            /\ InCatalog(req[p].domain,
                         Get(ModelAction(p), "productId")) # {})
        => LET catalog == PRODUCT_CACHE[req[p].domain].value
               product == catalog[Min(InCatalog(req[p].domain,
                              ModelAction(p).productId))]
           IN  /\ ReturnedAction(p).url = "/product/" \o product.slug
               /\ ReturnedAction(p).price_sale = product.price.sale
               /\ ReturnedAction(p).price_regular = product.price.regular
               /\ ReturnedAction(p).title = product.title
               /\ ReturnedAction(p).image = product.image_default[1]
               /\ ReturnedAction(p).slug = product.slug
               /\ ReturnedAction(p).productId = product._id

\* C3's case: the model's add_to_cart for p1 carried its own url, prices,
\* title, image and slug, all different from the catalogue's
C3_Witness ==
    \E p \in Procs :
        /\ Done(p) /\ loc[p].outcome = "returned"
        /\ loc[p].rawAssistantResponse = RawAddKnown
        /\ ModelAction(p).url # ReturnedAction(p).url
        /\ ModelAction(p).title # ReturnedAction(p).title

RespondedFallback(p) ==
    /\ http[p] = HttpOk(FallbackResponse)

\* C4 as claimed: when fetchConfig throws, the turn answers with the
\* fallback response and nothing is raised to the caller.
C4_ConfigFailureGivesFallback ==
    \A p \in Procs :
        (Done(p) /\ loc[p].failure = "config") => RespondedFallback(p)

\* C5 as claimed: when the retrieval fails (index build, embedding of the
\* query, fetch of the records by id), the turn answers with the fallback
\* response, persists nothing and raises nothing.
C5_RetrievalFailureGivesFallback ==
    \A p \in Procs :
        (Done(p) /\ loc[p].failure \in {"index", "embedding", "productsByIds"})
        => /\ RespondedFallback(p)
           /\ store[Key(p)] = loc[p].atStart

\* C6 as claimed: a request that carries every required field is answered
\* with an assistant-shaped reply, whatever collaborator fails; an error
\* status is sent only when a required field is missing.
C6_ValidRequestGetsReply ==
    \A p \in Procs :
        (pc[p] = "done" /\ req[p] \in ValidRequests)
        => /\ http[p].status = 200
           /\ DOMAIN http[p].assistantMessage =
                  {"message", "audio_description", "action"}

\* C7: when the completion's text does not decode as JSON, the turn answers
\* with the fallback response and the stored history is the one the turn
\* read or initialised: neither the user's message nor the assistant's text
\* is in it.
C7_InvalidJsonPersistsNothing ==
    \A p \in Procs :
        (Done(p) /\ JSONParse(loc[p].rawAssistantResponse).kind = "error"
            /\ loc[p].rawAssistantResponse # Undefined)
        => /\ RespondedFallback(p)
           /\ HasHistory(store, Key(p))
           /\ GetHistory(store, Key(p)) = loc[p].conversation

\* C7's case: a turn whose completion answered text that is not JSON
C7_Witness ==
    \E p \in Procs :
        /\ Done(p)
        /\ loc[p].rawAssistantResponse = RawNotJson
        /\ loc[p].failure = "json"

\* C8: when the completion call fails, the turn answers with the fallback
\* response and the stored history is what it was when the call was made.
C8_CompletionFailureKeepsHistory ==
    \A p \in Procs :
        (Done(p) /\ loc[p].failure = "completion")
        => /\ RespondedFallback(p)
           /\ HasHistory(store, Key(p))
           /\ GetHistory(store, Key(p)) = loc[p].conversation

\* C8's case: the completion call of a turn failed, on a session that turn
\* had just created
C8_Witness ==
    \E p \in Procs :
        /\ Done(p)
        /\ loc[p].failure = "completion"
        /\ ~loc[p].atStart.present
        /\ Len(GetHistory(store, Key(p))) = 1

\* C9 as claimed: a turn that ends with the fallback response has left the
\* history as it was before the turn, apart from the creation of the
\* session.
C9_FallbackPersistsNothing ==
    \A p \in Procs :
        (Done(p) /\ loc[p].outcome = "fallback")
        => GetHistory(store, Key(p)) =
              IF loc[p].atStart.present THEN loc[p].atStart.messages
              ELSE loc[p].conversation

\* the positions of the messages written since the request arrived
WrittenByTurn(p) ==
    LET h == GetHistory(store, Key(p))
    IN  {i \in 1..Len(h) :
            h[i].timestamp > NewestTimestamp(loc[p].atStart.messages)}

\* C10: when a turn has returned, the stored history holds either none of
\* the turn's messages or both, the user's message immediately followed by
\* the assistant's.
C10_BothOrNeither ==
    \A p \in Procs :
        Done(p)
        => LET h == GetHistory(store, Key(p))
           IN  \/ WrittenByTurn(p) = {}
               \/ \E i \in 1..(Len(h) - 1) :
                     /\ WrittenByTurn(p) = {i, i + 1}
                     /\ h[i].role = "user"
                     /\ h[i].content = req[p].userMessage
                     /\ h[i + 1].role = "assistant"
                     /\ h[i + 1].content = loc[p].rawAssistantResponse

\* C10's case: a turn returned after its append pruned the history
C10_Witness ==
    \E p \in Procs :
        /\ Done(p)
        /\ loc[p].outcome = "returned"
        /\ Len(loc[p].atStart.messages) + 2 > MAX_HISTORY_LENGTH
        /\ WrittenByTurn(p) # {}

-----------------------------------------------------------------------------
(* Properties of the turn's collaborator calls and of the session, under   *)
(* Spec                                                                    *)

\* the awaited calls that reach the embedding collaborator, and the one that
\* reaches the completion collaborator
EmbeddingCalls == {"fromDocuments", "similaritySearch"}
CompletionCalls == {"callOpenAI"}

\* C11: a turn of a tenant whose catalogue load gives no product returns the
\* empty-catalogue response, action type "none", and calls neither the
\* embedding collaborator nor the completion collaborator.
C11_EmptyCatalogCallsNothing ==
    \A p \in Procs :
        (Done(p) /\ loc[p].failure # "catalog"
            /\ GetProductsByDomain(req[p].domain) = <<>>)
        => /\ http[p] = HttpOk(EmptyCatalogResponse)
           /\ http[p].assistantMessage.action = [type |-> "none"]
           /\ loc[p].called \cap (EmbeddingCalls \cup CompletionCalls) = {}

\* C11's case: a turn that loaded the catalogue of empty.com and got nothing
C11_Witness ==
    \E p \in Procs :
        /\ Done(p)
        /\ req[p].domain = "empty.com"
        /\ "getProductsByDomain" \in loc[p].called
        /\ loc[p].outcome = "empty"

\* the turn has called the completion collaborator and appendToHistory has
\* not written yet
BeforeAppendWrite(p) ==
    pc[p] \in {"callOpenAI", "appendGetHistory", "appendSetHistory"}

\* C12: on the first turn of a session that did not exist, from the call of
\* the completion collaborator until appendToHistory writes, the session is
\* persisted and holds exactly one message, the system message built for the
\* turn.
C12_SessionCreatedFirst ==
    \A p \in Procs :
        (BeforeAppendWrite(p) /\ ~loc[p].atStart.present)
        => /\ HasHistory(store, Key(p))
           /\ GetHistory(store, Key(p)) =
                 <<Message("system",
                           BuildSystemMessage(req[p].domain,
                                              loc[p].productDescriptions,
                                              loc[p].config))>>

\* C12's case: the completion is being called on the first turn of a session
C12_Witness ==
    \E p \in Procs :
        /\ pc[p] = "callOpenAI"
        /\ ~loc[p].atStart.present
        /\ "setHistory" \in loc[p].called
        /\ Len(GetHistory(store, Key(p))) = 1

\* C13: once a session exists, every step leaves it in existence with the
\* same first message, the system message: no later turn, whether it returns
\* the reply, falls back or raises, prunes or not, and whatever products it
\* retrieves, changes history[0].
C13_SystemMessageImmutable ==
    [][\A k \in Sessions :
          HasHistory(store, k)
          => /\ HasHistory(store', k)
             /\ GetHistory(store', k) # <<>>
             /\ GetHistory(store', k)[1] = GetHistory(store, k)[1]
             /\ FirstRole(GetHistory(store', k)) = "system"]_vars

\* C13's case: a later turn of an existing session retrieved products in
\* another order than the turn that created it, appended and pruned, and the
\* first stored message is still the one found at the start of the turn
C13_Witness ==
    \E p \in Procs :
        /\ Done(p)
        /\ loc[p].outcome = "returned"
        /\ loc[p].atStart.present
        /\ Len(loc[p].atStart.messages) + 2 > MAX_HISTORY_LENGTH
        /\ BuildSystemMessage(req[p].domain, loc[p].productDescriptions,
                              loc[p].config)
              # loc[p].atStart.messages[1].content
        /\ GetHistory(store, Key(p))[1] = loc[p].atStart.messages[1]

-----------------------------------------------------------------------------
(* Properties of overlapping turns, under SpecConcurrent *)

\* the time appendToHistory stamped the turn's two messages with
Stamp(p) == NewestTimestamp(loc[p].finalHistory)

\* the positions of a list that hold a message stamped by the turn
StampedBy(p, messages) ==
    {i \in 1..Len(messages) : messages[i].timestamp = Stamp(p)}

\* both turns returned the model's reply, and each computed its list from a
\* history the other had not written to
BothReadBeforeEitherWrote(p, q) ==
    /\ p # q
    /\ Key(p) = Key(q)
    /\ Done(p) /\ loc[p].outcome = "returned"
    /\ Done(q) /\ loc[q].outcome = "returned"
    /\ StampedBy(q, loc[p].finalHistory) = {}
    /\ StampedBy(p, loc[q].finalHistory) = {}

\* C14: when two turns of the same session have both read the history
\* before either wrote and both have returned the reply, the stored history
\* is the list of one of them, written whole over the other's, and the
\* user and assistant messages of the other turn are not in it.
C14_LaterWriteOverwrites ==
    \A p, q \in Procs :
        BothReadBeforeEitherWrote(p, q)
        => LET h == GetHistory(store, Key(p))
           IN  /\ h \in {loc[p].finalHistory, loc[q].finalHistory}
               /\ StampedBy(p, h) = {} \/ StampedBy(q, h) = {}

\* C14's case: both turns answered with status 200 and the model's reply, and
\* the messages of the turn numbered 1 are lost
C14_Witness ==
    /\ BothReadBeforeEitherWrote(1, 2)
    /\ http[1].status = 200 /\ http[1].assistantMessage # FallbackResponse
    /\ http[2].status = 200 /\ http[2].assistantMessage # FallbackResponse
    /\ StampedBy(1, loc[1].finalHistory) # {}
    /\ StampedBy(1, GetHistory(store, Key(1))) = {}
    /\ StampedBy(2, GetHistory(store, Key(1))) # {}

-----------------------------------------------------------------------------
(* The pruned list, under SpecHistory *)

\* [...currentHistory, ...messagesWithTimestamp] of the last direct append
LastUpdatedHistory == last.before \o WithTimestamp(last.newMessages, now)

\* the first message of a list followed by the last MAX_HISTORY_LENGTH - 1
\* messages of the rest
FirstPlusTail(messages) ==
    <<messages[1]>> \o SliceLast(Tail(messages), MAX_HISTORY_LENGTH - 1)

LastAppendPruned ==
    /\ last.op = "appendToHistory"
    /\ Len(LastUpdatedHistory) > MAX_HISTORY_LENGTH

\* the list has one system message, in first place
OnlySystemIsFirst(messages) ==
    {i \in 1..Len(messages) : messages[i].role = "system"} = {1}

-----------------------------------------------------------------------------
(* Tenants and users, under Spec *)

\* the products of a tenant in the Product collection
ProductsOf(domain) ==
    {ProductCollection[i] : i \in InDomain(domain)}

\* what a tenant's turn took from the catalogue is the tenant's: the
\* products in the prompt, and the product the returned action was enriched
\* from
OwnCatalogOnly(p) ==
    /\ \E ps \in ProductLists :
          /\ \A i \in 1..Len(ps) : ps[i] \in ProductsOf(req[p].domain)
          /\ loc[p].productDescriptions = ProductDescriptions(ps)
    /\ (Done(p) /\ loc[p].outcome = "returned")
       => \/ ReturnedAction(p) = ModelAction(p)
          \/ ModelAction(p) = <<>> /\ ReturnedAction(p) = [type |-> "none"]
          \/ \E product \in ProductsOf(req[p].domain) :
                ReturnedAction(p) = WithProduct(ModelAction(p), product)

\* a step of a turn leaves the state of the other tenants as it was
OtherTenantsUnchanged(p) ==
    \A d \in Domains \ {req'[p].domain} :
        /\ \A u \in Users : store'[<<d, u>>] = store[<<d, u>>]
        /\ PRODUCT_CACHE'[d] = PRODUCT_CACHE[d]
        /\ CONFIG_CACHE'[d] = CONFIG_CACHE[d]
        /\ VECTOR_STORE_CACHE'[d] = VECTOR_STORE_CACHE[d]

\* C16: every step of a tenant's turn leaves the sessions and the catalogue,
\* config and index cache entries of every other tenant unchanged, and the
\* product descriptions of its prompt and the catalogue fields of its
\* returned action come from products of that tenant.
C16_TenantIsolation ==
    /\ [](\A p \in Procs : OwnCatalogOnly(p))
    /\ [][OtherTenantsUnchanged(1)]_vars

\* C16's case: after a turn of b.com filled that tenant's caches and session,
\* a turn of a.com whose model named b.com's product for the cart returned
\* the action untouched
C16_Witness ==
    \E p \in Procs :
        /\ Done(p) /\ loc[p].outcome = "returned"
        /\ req[p].domain = "a.com"
        /\ loc[p].rawAssistantResponse = RawAddUnknown
        /\ ModelAction(p).productId = ProductCollection[3]._id
        /\ ProductCollection[3].domain = "b.com"
        /\ PRODUCT_CACHE["b.com"].cached
        /\ VECTOR_STORE_CACHE["b.com"].cached
        /\ HasHistory(store, <<"b.com", "u1">>)

\* the pair the request names
RequestKey(p) == <<req[p].domain, req[p].id>>

\* C17: sessions are kept one per (tenant, userId) pair; the conversation a
\* turn sends to the completion is the one stored under its own pair, and
\* every step of the turn leaves the session of every other pair, the other
\* users of the same tenant included, unchanged.
C17_OwnSessionOnly ==
    /\ [](\A p \in Procs :
            pc[p] = "callOpenAI"
            => loc[p].conversation = GetHistory(store, RequestKey(p)))
    /\ [][\A k \in Sessions :
            k # <<req'[1].domain, req'[1].id>> => store'[k] = store[k]]_vars

\* C17's case: a turn of user u2 of a.com created u2's session and appended
\* to it while the history of user u1 of a.com stayed the stored one
C17_Witness ==
    \E p \in Procs :
        /\ Done(p) /\ loc[p].outcome = "returned"
        /\ RequestKey(p) = <<"a.com", "u2">>
        /\ ~loc[p].atStart.present
        /\ Len(GetHistory(store, <<"a.com", "u2">>)) = 3
        /\ GetHistory(store, <<"a.com", "u1">>) = EarlierHistory

-----------------------------------------------------------------------------
(* The caches, under Spec *)

\* the step makes the awaited call named label for the turn
Calls(p, label) ==
    label \notin loc[p].called /\ label \in loc'[p].called

\* an entry that is stored stays, with its value
EntriesKept(cache) ==
    \A d \in Domains : cache[d].cached => cache'[d] = cache[d]

\* C18: an entry stored in PRODUCT_CACHE or CONFIG_CACHE is never removed or
\* replaced; a turn calls getProductsByDomain, or the configuration service,
\* only when the tenant has no entry, and otherwise goes on with the stored
\* value.
C18_CachesMemoize ==
    [][/\ EntriesKept(PRODUCT_CACHE)
       /\ EntriesKept(CONFIG_CACHE)
       /\ \A p \in Procs :
            /\ Calls(p, "getProductsByDomain")
               => ~PRODUCT_CACHE[req[p].domain].cached
            /\ Calls(p, "fetchConfig")
               => ~CONFIG_CACHE[req[p].domain].cached
            /\ (pc[p] = "loadProducts" /\ pc'[p] # pc[p]
                  /\ PRODUCT_CACHE[req[p].domain].cached)
               => loc'[p].allProducts = PRODUCT_CACHE[req[p].domain].value
            /\ (pc[p] = "getProductsByIds" /\ pc'[p] \notin {pc[p], "done"}
                  /\ CONFIG_CACHE[req[p].domain].cached)
               => /\ pc'[p] = "getHistory"
                  /\ loc'[p].config = CONFIG_CACHE[req[p].domain].value]_vars

\* C18's case: a turn that found the catalogue and the configuration of its
\* tenant in the caches and called neither collaborator
C18_Witness ==
    \E p \in Procs :
        /\ Done(p) /\ loc[p].outcome = "returned"
        /\ "getHistory" \in loc[p].called
        /\ "getProductsByDomain" \notin loc[p].called
        /\ "fetchConfig" \notin loc[p].called
        /\ loc[p].allProducts = PRODUCT_CACHE[req[p].domain].value
        /\ loc[p].allProducts = GetProductsByDomain(req[p].domain)
        /\ loc[p].config = CONFIG_CACHE[req[p].domain].value
        /\ loc[p].config = ConfigurationOf(req[p].domain)

-----------------------------------------------------------------------------
(* The similarity index, under SpecSearch *)

LastSearch == last.op = "searchProducts"

\* C19: once an index is cached for a tenant it is never replaced, and a
\* query that finds it cached sends no product text to the embedding
\* collaborator, leaves the cache entry as it found it and, when it is passed
\* products, answers from the cached index whatever products it is passed.
C19_IndexBuiltOnce ==
    /\ []((LastSearch /\ last.indexBefore.cached)
          => /\ last.embedded = <<>>
             /\ VECTOR_STORE_CACHE[last.domain] = last.indexBefore
             /\ (last.outcome = "returned" /\ last.products # <<>>)
                => last.result = RelevantProductIds(last.indexBefore.value,
                                                    last.query, last.k))
    /\ [][EntriesKept(VECTOR_STORE_CACHE)]_vars

\* C19's case: a query passed another product list than the one the cached
\* index was built from, whose own index would rank differently
C19_Witness ==
    /\ LastSearch
    /\ last.indexBefore.cached
    /\ last.outcome = "returned"
    /\ last.products # <<>>
    /\ VectorStoreOf(last.products) # last.indexBefore.value
    /\ last.result # RelevantProductIds(VectorStoreOf(last.products),
                                        last.query, last.k)

\* the product ids of the documents of an index
IndexedIds(entry) ==
    {entry.value[i].metadata.productId : i \in 1..Len(entry.value)}

\* the same query: tenant, text and k, passed products both times or neither
SameQuery(c, d) ==
    /\ c.domain = d.domain
    /\ c.query = d.query
    /\ c.k = d.k
    /\ (c.products = <<>>) <=> (d.products = <<>>)

-----------------------------------------------------------------------------
(* The ranking of a query's results, under SpecSearch *)

\* the place of the document of a product in an index, 0 when it has none
PlaceInIndex(index, id) ==
    IF \E i \in 1..Len(index) : index[i].metadata.productId = id
    THEN CHOOSE i \in 1..Len(index) : index[i].metadata.productId = id
    ELSE 0

\* the similarity of the indexed document of a product to a query
SimilarityTo(index, id, query) ==
    Similarity(Embedding(query), index[PlaceInIndex(index, id)].embedding)

-----------------------------------------------------------------------------
(* The records behind the product descriptions, under SpecRank *)

\* the record of the collection with an id, as a list: empty when none has it
RecordOf(id) ==
    Pick(ProductCollection,
         {i \in 1..Len(ProductCollection) : ProductCollection[i]._id = id})

\* the records of the ids of a ranking, in the order of the ranking, an id
\* without a record left out
RECURSIVE RecordsInRankedOrder(_)
RecordsInRankedOrder(ids) ==
    IF ids = <<>> THEN <<>>
    ELSE RecordOf(Head(ids)) \o RecordsInRankedOrder(Tail(ids))

\* C22: whatever order the records were fetched in, the records the
\* descriptions are built from are those of the ranked ids in the order of
\* the ranking, an id without a record being left out, and the descriptions
\* are theirs in that order.
C22_RecordsInRankedOrder ==
    last.op = "relevantProducts"
    => /\ last.relevantProducts = RecordsInRankedOrder(last.relevantProductIds)
       /\ last.productDescriptions =
             ProductDescriptions(RecordsInRankedOrder(last.relevantProductIds))

\* C22's case: three records fetched in the reverse of their ranked order,
\* with an id that has no record ranked between them
C22_Witness ==
    /\ last.op = "relevantProducts"
    /\ Len(last.relevantProductIds) = 4
    /\ last.relevantProductIds[2] = "p0"
    /\ Len(last.fetched) = 3
    /\ last.fetched[1]._id = last.relevantProductIds[4]
    /\ last.fetched[3]._id = last.relevantProductIds[1]
    /\ last.relevantProducts[1]._id = last.relevantProductIds[1]
    /\ last.relevantProducts[3]._id = last.relevantProductIds[4]

-----------------------------------------------------------------------------
(* What a successful turn returns and stores, under Spec *)

\* the object the turn decoded from the completion it returned
DecodedReply(p) == loc[p].assistantReply.value

\* C23: when the turn returns the model's reply, an action whose type is not
\* add_to_cart, or whose productId is the id of no product of the tenant's
\* catalogue, is returned as the model gave it; a reply without an action
\* returns the action {type: "none"}; the returned message and
\* audio_description are the model's, or 'Respuesta vacía.' and '' when the
\* reply has none.
C23_ActionPassedThrough ==
    \A p \in Procs :
        (Done(p) /\ loc[p].outcome = "returned")
        => LET reply == DecodedReply(p)
               answer == http[p].assistantMessage
               catalog == PRODUCT_CACHE[req[p].domain].value
           IN  /\ ("action" \in DOMAIN reply
                     /\ \/ Get(reply.action, "type") # "add_to_cart"
                        \/ \A i \in 1..Len(catalog) :
                              catalog[i]._id # Get(reply.action, "productId"))
                  => answer.action = reply.action
               /\ "action" \notin DOMAIN reply
                  => answer.action = [type |-> "none"]
               /\ answer.message =
                     (IF "message" \in DOMAIN reply THEN reply.message
                      ELSE "Respuesta vacía.")
               /\ answer.audio_description =
                     (IF "audio_description" \in DOMAIN reply
                      THEN reply.audio_description ELSE "")

\* C23's case: an add_to_cart whose productId is a product of another tenant,
\* in a reply without audio_description
C23_Witness ==
    \E p \in Procs :
        /\ Done(p) /\ loc[p].outcome = "returned"
        /\ loc[p].rawAssistantResponse = RawAddUnknown
        /\ Get(ModelAction(p), "type") = "add_to_cart"
        /\ \E i \in 1..Len(ProductCollection) :
              /\ ProductCollection[i]._id = ModelAction(p).productId
              /\ ProductCollection[i].domain # req[p].domain
        /\ ReturnedAction(p) = ModelAction(p)
        /\ "audio_description" \notin DOMAIN DecodedReply(p)
        /\ http[p].assistantMessage.audio_description = ""

\* C24: when a turn has returned the model's reply, the last two messages of
\* the stored history are the user's message and an assistant message whose
\* content is the completion's text as it was received, each a role, a
\* content and a timestamp, and they are the only messages the turn wrote;
\* the stored text decodes to the model's own action, whatever action was
\* returned.
C24_RawPayloadStored ==
    \A p \in Procs :
        (Done(p) /\ loc[p].outcome = "returned")
        => LET h == GetHistory(store, Key(p))
               n == Len(h)
           IN  /\ n >= 2
               /\ WrittenByTurn(p) = {n - 1, n}
               /\ DOMAIN h[n - 1] = {"role", "content", "timestamp"}
               /\ DOMAIN h[n] = {"role", "content", "timestamp"}
               /\ h[n - 1].role = "user"
               /\ h[n - 1].content = req[p].userMessage
               /\ h[n].role = "assistant"
               /\ h[n].content = loc[p].rawAssistantResponse
               /\ JSONParse(h[n].content) = loc[p].assistantReply

\* C24's case: the returned action was enriched, so that it differs from the
\* action of the stored text
C24_Witness ==
    \E p \in Procs :
        /\ Done(p) /\ loc[p].outcome = "returned"
        /\ ReturnedAction(p) # ModelAction(p)
        /\ LET h == GetHistory(store, Key(p))
           IN  /\ h[Len(h)].content = RawAddKnown
               /\ JSONParse(h[Len(h)].content).value.action = ModelAction(p)

\* C25: while the completion is being called, the messages of the request are
\* the role and content of each message of the session's stored history, in
\* stored order, the system message first, followed by the user's message;
\* and when the session existed as the turn began, the turn wrote no new
\* session and the system message sent is the stored one.
C25_RequestIsHistoryPlusUser ==
    \A p \in Procs :
        pc[p] = "callOpenAI"
        => LET h == GetHistory(store, Key(p))
               m == loc[p].messagesForAPI
           IN  /\ HasHistory(store, Key(p))
               /\ Len(m) = Len(h) + 1
               /\ \A i \in 1..Len(h) :
                     m[i] = [role |-> h[i].role, content |-> h[i].content]
               /\ m[1].role = "system"
               /\ m[Len(m)] = [role |-> "user",
                               content |-> req[p].userMessage]
               /\ loc[p].atStart.present
                  => /\ "setHistory" \notin loc[p].called
                     /\ m[1].content = loc[p].atStart.messages[1].content

\* C25's case: the session existed with several messages, and the products
\* retrieved in this turn would have given another system prompt than the
\* stored one
C25_Witness ==
    \E p \in Procs :
        /\ pc[p] = "callOpenAI"
        /\ Len(loc[p].messagesForAPI) > 3
        /\ loc[p].productDescriptions # ""
        /\ loc[p].messagesForAPI[1].content
             # BuildSystemMessage(req[p].domain, loc[p].productDescriptions,
                                  loc[p].config)

-----------------------------------------------------------------------------
(* Failed cache misses, under Spec *)

\* the turn follows, for the same tenant, a turn that failed at that call
FollowsFailureAt(p, failure) ==
    /\ loc[p].before.failure = failure
    /\ loc[p].before.domain = req[p].domain

\* C26: a turn whose call of the configuration service, or of
\* getProductsByDomain, failed ends with the tenant's cache entry absent and
\* with the failure raised to handleChatRequest, which answers 500; and the
\* next turn of that tenant, once it is past the lookup, has called the
\* collaborator again.
C26_FailedMissStoresNothing ==
    \A p \in Procs :
        /\ (Done(p) /\ loc[p].failure = "config")
           => /\ ~CONFIG_CACHE[req[p].domain].cached
              /\ loc[p].outcome = "thrown"
              /\ http[p].status = 500
        /\ (Done(p) /\ loc[p].failure = "catalog")
           => /\ ~PRODUCT_CACHE[req[p].domain].cached
              /\ loc[p].outcome = "thrown"
              /\ http[p].status = 500
        /\ (FollowsFailureAt(p, "config") /\ "getHistory" \in loc[p].called)
           => "fetchConfig" \in loc[p].called
        /\ (FollowsFailureAt(p, "catalog") /\ pc[p] # "loadProducts")
           => "getProductsByDomain" \in loc[p].called

\* C26's case: the turn after a failed call of the configuration service
\* called it again, got the configuration and returned the model's reply
C26_Witness ==
    \E p \in Procs :
        /\ FollowsFailureAt(p, "config")
        /\ Done(p) /\ loc[p].outcome = "returned"
        /\ "fetchConfig" \in loc[p].called
        /\ CONFIG_CACHE[req[p].domain].cached
        /\ loc[p].config = ConfigurationOf(req[p].domain)

-----------------------------------------------------------------------------
(* Overlapping turns of one session, under SpecConcurrent *)

\* the positions of a list that hold a system message
SystemPositions(messages) ==
    {i \in 1..Len(messages) : messages[i].role = "system"}

\* C27: however two overlapping turns of one session interleave, every
\* stored history is non-empty, has exactly one system message, which is its
\* first message, and has at most MAX_HISTORY_LENGTH messages.
C27_StoredHistoryWellFormed ==
    \A k \in Sessions :
        HasHistory(store, k)
        => /\ GetHistory(store, k) # <<>>
           /\ SystemPositions(GetHistory(store, k)) = {1}
           /\ Len(GetHistory(store, k)) <= MAX_HISTORY_LENGTH

\* C27's case: two first turns of the session overlapped, each found no
\* session and wrote one, and both returned the model's reply
C27_Witness ==
    /\ \A p \in Procs :
          /\ Done(p) /\ loc[p].outcome = "returned"
          /\ Key(p) = DirectKey
          /\ ~loc[p].atStart.present
          /\ "setHistory" \in loc[p].called
    /\ Len(GetHistory(store, DirectKey)) = 3

\* C27's other case: two turns overlapped on a session whose history was at
\* the point of being pruned, and both returned the model's reply
C27_WitnessPruned ==
    /\ \A p \in Procs :
          /\ Done(p) /\ loc[p].outcome = "returned"
          /\ Key(p) = DirectKey
          /\ Len(loc[p].atStart.messages) + 2 > MAX_HISTORY_LENGTH
    /\ Len(GetHistory(store, DirectKey)) = MAX_HISTORY_LENGTH

\* the step replaces the history of session k by another list that holds a
\* system message and nothing else
WritesFreshSession(k) ==
    /\ store'[k] # store[k]
    /\ HasHistory(store', k)
    /\ Len(GetHistory(store', k)) = 1
    /\ GetHistory(store', k)[1].role = "system"

\* C28 as claimed: once a session is stored, no step of any turn replaces its
\* history by a fresh list of one system message, whatever the interleaving.
C28_InitialisedOnce ==
    [][\A k \in Sessions : HasHistory(store, k) => ~WritesFreshSession(k)]_vars

\* the consequence C28 draws: no initialisation write erases a stored user or
\* assistant message
C28_NoTurnErased ==
    [][\A k \in Sessions :
          (HasHistory(store, k) /\ Len(GetHistory(store, k)) > 1)
          => ~WritesFreshSession(k)]_vars

-----------------------------------------------------------------------------
(* Exchanges in the stored history, under Spec *)

\* the list is a system message followed by user messages each followed by
\* an assistant message
SystemThenPairs(messages) ==
    /\ messages # <<>>
    /\ messages[1].role = "system"
    /\ Len(messages) % 2 = 1
    /\ \A i \in 2..Len(messages) :
          messages[i].role = (IF i % 2 = 0 THEN "user" ELSE "assistant")

\* C29 as claimed: with turns that do not overlap, every stored history is
\* the system message followed by whole user/assistant pairs, pruned or not.
C29_WholeExchanges ==
    \A k \in Sessions :
        HasHistory(store, k) => SystemThenPairs(GetHistory(store, k))

\* what the code keeps instead: once a turn has pruned, the message after the
\* system message is the assistant message of the exchange whose user message
\* was discarded
C29_OrphanAssistant ==
    \A p \in Procs :
        (Done(p) /\ loc[p].outcome = "returned"
            /\ Len(loc[p].atStart.messages) + 2 > MAX_HISTORY_LENGTH
            /\ SystemThenPairs(loc[p].atStart.messages))
        => LET h == GetHistory(store, Key(p))
           IN  /\ Len(h) = MAX_HISTORY_LENGTH
               /\ h[2].role = "assistant"
               /\ h[2] = loc[p].atStart.messages[3]

-----------------------------------------------------------------------------
(* The order of an append, under SpecHistory *)

\* a is b with some of its elements left out
RECURSIVE IsSubsequence(_, _)
IsSubsequence(a, b) ==
    IF a = <<>> THEN TRUE
    ELSE IF b = <<>> THEN FALSE
    ELSE IF Head(a) = Head(b) THEN IsSubsequence(Tail(a), Tail(b))
    ELSE IsSubsequence(a, Tail(b))

IsMessage(m) == m # UndefinedMessage

\* the appended messages, stamped, are the last elements of the list the
\* last append persisted, and the messages in front of them are messages of
\* the earlier history in their order
AppendedLastInOrder ==
    LET h == GetHistory(store, last.key)
        n == Len(last.newMessages)
    IN  /\ Len(h) >= n
        /\ SubSeq(h, Len(h) - n + 1, Len(h))
             = WithTimestamp(last.newMessages, now)
        /\ IsSubsequence(SelectSeq(SubSeq(h, 1, Len(h) - n), IsMessage),
                         last.before)

LastAppendAtMostNine ==
    /\ last.op = "appendToHistory"
    /\ Len(last.newMessages) <= MAX_HISTORY_LENGTH - 1

C30_WitnessRetained ==
    /\ LastAppendAtMostNine
    /\ Len(last.newMessages) = 2
    /\ Len(last.before) > MAX_HISTORY_LENGTH
    /\ \A i \in 1..2 : last.newMessages[i].role # "system"
    /\ GetHistory(store, last.key)[2] = last.before[Len(last.before) - 6]

-----------------------------------------------------------------------------
(* A first turn that fails once its session is written, under Spec *)

\* where a turn can fail from the completion call on: the call, JSON.parse,
\* the read and the write of appendToHistory, the reading of the reply
FromCompletionOn == {"completion", "json", "appendRead", "appendWrite", "reply"}

\* the turn follows a first turn of the same tenant and user that failed at
\* one of the places
FollowsFirstTurnFailedAt(p, failures) ==
    /\ loc[p].before.first
    /\ loc[p].before.failure \in failures
    /\ loc[p].before.domain = req[p].domain
    /\ loc[p].before.id = req[p].id

\* the first turn of a session failed at one of the places, and the session
\* holds the system message that turn wrote and nothing else
FailedFirstTurnLeavesSystem(p, failures) ==
    (Done(p) /\ ~loc[p].atStart.present /\ loc[p].failure \in failures)
    => /\ HasHistory(store, Key(p))
       /\ Len(GetHistory(store, Key(p))) = 1
       /\ GetHistory(store, Key(p))[1].role = "system"
       /\ GetHistory(store, Key(p)) = loc[p].conversation

\* the turn after such a first turn, calling the completion, found the
\* session with the system message alone, wrote no session and sends that
\* system message followed by the user's message
NextTurnSendsStoredSystem(p, failures) ==
    (FollowsFirstTurnFailedAt(p, failures) /\ pc[p] = "callOpenAI")
    => /\ loc[p].atStart.present
       /\ Len(loc[p].atStart.messages) = 1
       /\ "setHistory" \notin loc[p].called
       /\ loc[p].messagesForAPI =
             <<[role |-> "system",
                content |-> loc[p].atStart.messages[1].content],
               [role |-> "user", content |-> req[p].userMessage]>>

\* C31 as claimed: when the first turn of a session fails at or after the
\* completion call, the session stays stored holding the system message
\* alone, and the next turn of that tenant and user finds it, builds no
\* system prompt and sends that system message to the completion.
C31_FailedFirstTurnKeepsSystem ==
    \A p \in Procs :
        /\ FailedFirstTurnLeavesSystem(p, FromCompletionOn)
        /\ NextTurnSendsStoredSystem(p, FromCompletionOn)

\* what holds instead: the same, for every failure but the one that comes
\* after the turn's messages were written
C31_ExceptAfterAppend ==
    \A p \in Procs :
        /\ FailedFirstTurnLeavesSystem(p, FromCompletionOn \ {"reply"})
        /\ NextTurnSendsStoredSystem(p, FromCompletionOn \ {"reply"})

\* the case of C31_ExceptAfterAppend: the second turn of a session whose
\* first turn failed at the completion call asks with another text, for
\* which another system prompt would have been built
C31_SecondTurnReached ==
    \E p \in Procs :
        /\ FollowsFirstTurnFailedAt(p, {"completion", "json"})
        /\ pc[p] = "callOpenAI"
        /\ loc[p].messagesForAPI[1].content
             # BuildSystemMessage(req[p].domain, loc[p].productDescriptions,
                                  loc[p].config)

-----------------------------------------------------------------------------
(* A cached catalogue without products, under Spec *)

\* the tenant's catalogue is in the cache, loaded without products
CachedEmpty(d) == PRODUCT_CACHE[d].cached /\ PRODUCT_CACHE[d].value = <<>>

\* the turn is past the lookup of its tenant's catalogue, which it found in
\* the cache
FoundCatalogCached(p) ==
    /\ pc[p] \notin {"idle", "loadProducts"}
    /\ loc[p].outcome # "rejected"
    /\ "getProductsByDomain" \notin loc[p].called

\* C32: a catalogue cached without products is never replaced; a turn that
\* looks up the catalogue of such a tenant ends at once with the
\* empty-catalogue response, having made no awaited call (none of
\* getProductsByDomain, the configuration service, the session store) and
\* changed neither the sessions nor the caches; and such a tenant has no
\* session and no cached configuration.
C32_EmptyCatalogMemoized ==
    /\ [][\A d \in Domains : CachedEmpty(d)
                               => PRODUCT_CACHE'[d] = PRODUCT_CACHE[d]]_vars
    /\ [][\A p \in Procs :
            (pc[p] = "loadProducts" /\ pc'[p] # pc[p]
                /\ CachedEmpty(req[p].domain))
            => /\ pc'[p] = "done"
               /\ http'[p] = HttpOk(EmptyCatalogResponse)
               /\ loc'[p].called = {}
               /\ store' = store
               /\ CONFIG_CACHE' = CONFIG_CACHE
               /\ PRODUCT_CACHE' = PRODUCT_CACHE]_vars
    /\ [](\A d \in Domains :
            CachedEmpty(d)
            => /\ \A u \in Users : ~HasHistory(store, <<d, u>>)
               /\ ~CONFIG_CACHE[d].cached)

\* C32's case: the turn after one that loaded the catalogue of the same
\* tenant and got no product
C32_Witness ==
    \E p \in Procs :
        /\ loc[p].before.domain = req[p].domain
        /\ loc[p].before.failure = "none"
        /\ loc[p].before.first
        /\ GetProductsByDomain(req[p].domain) = <<>>
        /\ FoundCatalogCached(p)
        /\ Done(p) /\ loc[p].outcome = "empty"
        /\ loc[p].called = {}

=============================================================================
